---------------------------- MODULE Spec2Model ----------------------------
(***************************************************************************)
(* The RabbitMQ bridge of the order service (RabbitMQService): the single  *)
(* shared connection and channel, the reconnect loop, request/response     *)
(* calls (publishWithResponse) with their registry (responseEmitter),      *)
(* deadline timers and reply queues, and queue subscriptions with explicit *)
(* acknowledgement.                                                        *)
(*                                                                         *)
(* One action is one run of the event loop: the code from one await (or    *)
(* one callback entry) to the next await.  The broker and the network are  *)
(* the environment: BrokerDown, BrokerUp, Reply, SubDeliver.               *)
(*                                                                         *)
(* A connection carries exactly one channel (connect() calls createChannel *)
(* once, on the connection it has just opened), so a channel is named by   *)
(* the id of its connection.                                               *)
(***************************************************************************)
EXTENDS Integers, Sequences, FiniteSets, TLC

\* ------------------------------------------------------------- bounds
NumCalls == 2
MaxTasks == 2
MaxConns == 4
NumMsgs == 1
MaxOutages == 1
MaxReplies == 2
NumPayloads == 2
MaxDbFailures == 1

\* src/unnamed/part_002:47-70: two exchanges, three queues, one binding.
TopologySteps == 6

Calls == 1..NumCalls
Tasks == 1..MaxTasks
Conns == 1..MaxConns
Msgs == 1..NumMsgs
Payloads == 1..NumPayloads

\* this.connection / this.channel before their first assignment (undefined).
\* The per-connection state is defined at NoConn too, where nothing is open.
NoConn == 0
ConnIds == Conns \cup {NoConn}

VARIABLES
    \* ---- environment
    brokerUp,       \* the broker accepts connections
    outagesLeft,    \* broker outages still to come
    repliesLeft,    \* replies the responder may still send
    callsLeft,      \* calls of publishWithResponse still to come
    msgsLeft,       \* deliveries to the subscription still to come
    stopsLeft,      \* shutdowns of the application still to come
    lifecycle,      \* of the Nest module: new, starting, running, bootFailed, stopped
    \* ---- connections and channels, by connection id
    connOpen,       \* the connection is live
    chanOpen,       \* its channel is open
    handlers,       \* number of 'close' listeners installed on it
    declared,       \* topology items declared through its channel
    subscribed,     \* inventory.updates consumers registered on its channel
    \* ---- RabbitMQService fields
    connection,     \* this.connection
    channel,        \* this.channel
    responseEmitter, \* keys of this.responseEmitter (correlation ids)
    \* ---- onModuleInit / reconnect activations
    tpc, tkind, tref, ttopo,
    \* ---- publishWithResponse calls
    pc, badMsg, callCh, callErr, outcome, result, timer, queue, consumer,
    inbox, published, delReqs, callerEvents, orphanRejects,
    resolvedBy,     \* the message whose delivery resolved the call
    foreignSeen,    \* the call's consumer was handed another call's message
    sinceReconnect, \* the call was made with the service reconnected
    everConnected,  \* connect() has returned successfully at least once
    retried,        \* the retry timer of line 99 has fired at least once
    \* ---- messages delivered to a subscription
    mpc, mch, mbody, mhandlerOk, acks, nacks, mackCh,
    \* ---- OrderService and its collaborators
    createsLeft,    \* createOrder requests still to come
    handlesLeft,    \* handleStockUpdate events still to come
    dbFailuresLeft, \* repository operations that may still fail
    logger,         \* the implementation of logOrderEvent in use
    opc,            \* createOrder: the await it is at
    oerror,         \* createOrder: the error on its way to the caller
    oreturn,        \* createOrder: what its caller got
    order,          \* status of the stored order
    events,         \* event types passed to logOrderEvent by createOrder
    served,         \* requests the inventory service has processed
    deducted,       \* the inventory service has deducted the order's stock
    hpc, hreturn    \* handleStockUpdate: the await it is at, its result

envVars == <<brokerUp, outagesLeft, repliesLeft, callsLeft, msgsLeft, stopsLeft, lifecycle>>
connVars == <<connOpen, chanOpen, handlers, declared, subscribed>>
fieldVars == <<connection, channel>>
taskVars == <<tpc, tkind, tref, ttopo, everConnected, retried>>
callVars == <<pc, badMsg, callCh, callErr, outcome, result, timer, queue,
              consumer, inbox, published, delReqs, callerEvents,
              orphanRejects, resolvedBy, foreignSeen, sinceReconnect,
              responseEmitter>>
subVars == <<mpc, mch, mbody, mhandlerOk, acks, nacks, mackCh>>
createVars == <<opc, oerror, oreturn, order, events, served, deducted>>
orderVars == <<createsLeft, handlesLeft, dbFailuresLeft, logger, createVars,
               hpc, hreturn>>
vars == <<envVars, connVars, fieldVars, taskVars, callVars, subVars, orderVars>>

\* ------------------------------------------------ connection manager

\* A connection id that names no live connection and that neither field
\* refers to any more: the id of the next connection object.
FreeConns == {k \in Conns : /\ ~connOpen[k] /\ k # connection /\ k # channel
                            /\ \A t \in Tasks : tpc[t] = "idle" \/ tref[t] # k
                            /\ \A c \in Calls : pc[c] # "assert" \/ callCh[c] # k
                            /\ \A m \in Msgs : mpc[m] # "handling" \/ mch[m] # k}

FreeTasks == {t \in Tasks : tpc[t] = "idle"}

\* The n smallest elements of S (n <= Cardinality(S)).
RECURSIVE Smallest(_, _)
Smallest(S, n) ==
    IF n = 0 \/ S = {} THEN {}
    ELSE LET m == CHOOSE x \in S : \A y \in S : x <= y
         IN {m} \cup Smallest(S \ {m}, n - 1)

\* cleanup() up to its first await that waits for the broker, run by an
\* activation that starts reconnect(): the place the activation waits at
\* and what it waits on.  channel.close() and connection.close() on an
\* object that is already closed throw, cleanup's catch swallows the error
\* and connect() starts.
CleanupStart(ch, cn, chOpen, cnOpen) ==
    IF ch # NoConn
    THEN IF chOpen[ch] THEN <<"cleanupChan", ch>> ELSE <<"connect", NoConn>>
    ELSE IF cn # NoConn /\ cnOpen[cn] THEN <<"cleanupConn", cn>>
         ELSE <<"connect", NoConn>>

\* The activations after the 'close' event of every connection in K was
\* emitted: each listener runs reconnect() in an idle slot.
SpawnReconnects(K, chOpen, cnOpen) ==
    LET n == IF K = {} THEN 0
             ELSE LET RECURSIVE Sum(_)
                      Sum(S) == IF S = {} THEN 0
                                ELSE LET k == CHOOSE x \in S : TRUE
                                     IN handlers[k] + Sum(S \ {k})
                  IN Sum(K)
        new == Smallest(FreeTasks, n)
        start == CleanupStart(channel, connection, chOpen, cnOpen)
    IN [pcs |-> [t \in Tasks |-> IF t \in new THEN start[1] ELSE tpc[t]],
        kinds |-> [t \in Tasks |-> IF t \in new THEN "reconnect" ELSE tkind[t]],
        refs |-> [t \in Tasks |-> IF t \in new THEN start[2] ELSE tref[t]],
        topos |-> [t \in Tasks |-> IF t \in new THEN 0 ELSE ttopo[t]],
        n |-> n]


\* What the broker does to the calls' reply queues when the channels in K
\* close: the consumers on them are cancelled, deliveries in flight are
\* lost, and the exclusive auto-delete reply queues declared through them
\* are deleted.
ChannelsClosed(K) ==
    /\ consumer' = [c \in Calls |-> IF consumer[c] \in K THEN NoConn ELSE consumer[c]]
    /\ inbox' = [c \in Calls |-> IF consumer[c] \in K \/ callCh[c] \in K
                                 THEN <<>> ELSE inbox[c]]
    /\ queue' = [c \in Calls |-> IF queue[c] = "declared" /\ callCh[c] \in K
                                 THEN "deleted" ELSE queue[c]]
    /\ UNCHANGED <<pc, badMsg, callCh, callErr, outcome, result, timer,
                   published, delReqs, callerEvents, orphanRejects,
                   resolvedBy, foreignSeen, sinceReconnect>>

\* Faulty variant: the 'close' listener drains the registry.
CancelAllOnClose(reg) == {}

\* The 'close' listener (lines 84-89) logs and calls reconnect(); neither it
\* nor reconnect() touches this.responseEmitter: the registry after the event.
RegistryOnClose(reg) == reg

\* Faulty variant: reconnect()'s catch logs and arms no timer.
GivesUp(t) == "idle"

\* A rejected await in connect() or setupSubscriptions(): onModuleInit lets
\* the error escape (the boot fails), reconnect() catches it and arms the
\* 5 s retry timer (line 99).
FailedAt(t) == IF tkind[t] = "init" THEN "idle" ELSE "retryWait"

Fail(t) ==
    /\ tpc' = [tpc EXCEPT ![t] = FailedAt(t)]
    /\ tref' = [tref EXCEPT ![t] = NoConn]
    /\ lifecycle' = IF tkind[t] = "init" THEN "bootFailed" ELSE lifecycle
    /\ UNCHANGED <<tkind, ttopo, everConnected, retried, brokerUp, outagesLeft,
                   repliesLeft, callsLeft, msgsLeft, stopsLeft>>

\* Where an activation goes when cleanup() has returned: reconnect() calls
\* connect() (line 95), onModuleDestroy returns (line 35).
AfterCleanup(t) == IF tkind[t] = "destroy" THEN "idle" ELSE "connect"

\* onModuleInit (lines 29-32) up to connect()'s first await (line 43).
OnModuleInit ==
    /\ lifecycle = "new"
    /\ lifecycle' = "starting"
    /\ tpc' = [tpc EXCEPT ![1] = "connect"]
    /\ tkind' = [tkind EXCEPT ![1] = "init"]
    /\ UNCHANGED <<tref, ttopo, everConnected, retried, brokerUp, outagesLeft,
                   repliesLeft, callsLeft, msgsLeft, stopsLeft, connVars,
                   fieldVars, callVars, subVars>>
    /\ UNCHANGED orderVars

\* onModuleDestroy (lines 34-36): cleanup() up to its first await.
OnModuleDestroy ==
    /\ lifecycle = "running"
    /\ stopsLeft > 0
    /\ FreeTasks # {}
    /\ lifecycle' = "stopped"
    /\ stopsLeft' = stopsLeft - 1
    /\ LET t == CHOOSE x \in FreeTasks : \A y \in FreeTasks : x <= y
           start == CleanupStart(channel, connection, chanOpen, connOpen)
       IN /\ tpc' = [tpc EXCEPT ![t] = IF start[1] = "connect" THEN "idle" ELSE start[1]]
          /\ tref' = [tref EXCEPT ![t] = start[2]]
          /\ tkind' = [tkind EXCEPT ![t] = "destroy"]
    /\ UNCHANGED <<ttopo, everConnected, retried, brokerUp, outagesLeft, repliesLeft,
                   callsLeft, msgsLeft, connVars, fieldVars, callVars, subVars>>
    /\ UNCHANGED orderVars

\* connect(): `this.connection = await connect(url)` resolves (line 43) and
\* createChannel() is called on the new connection (line 44).
ConnectOk(t) ==
    /\ tpc[t] = "connect"
    /\ brokerUp
    /\ FreeConns # {}
    /\ LET k == CHOOSE x \in FreeConns : \A y \in FreeConns : x <= y
       IN /\ connOpen' = [connOpen EXCEPT ![k] = TRUE]
          /\ chanOpen' = [chanOpen EXCEPT ![k] = FALSE]
          /\ handlers' = [handlers EXCEPT ![k] = 0]
          /\ declared' = [declared EXCEPT ![k] = {}]
          /\ subscribed' = [subscribed EXCEPT ![k] = 0]
          /\ connection' = k
          /\ tref' = [tref EXCEPT ![t] = k]
    /\ tpc' = [tpc EXCEPT ![t] = "createChannel"]
    /\ UNCHANGED <<channel, tkind, ttopo, everConnected, retried, envVars, callVars, subVars>>
    /\ UNCHANGED orderVars

\* connect(): amqplib's connect(url) rejects, the broker being unreachable.
ConnectFail(t) ==
    /\ tpc[t] = "connect"
    /\ ~brokerUp
    /\ Fail(t)
    /\ UNCHANGED <<connVars, fieldVars, callVars, subVars>>
    /\ UNCHANGED orderVars

\* connect(): `this.channel = await ...createChannel()` resolves (line 44)
\* and the first assertExchange is sent on this.channel (line 47).
CreateChannelOk(t) ==
    /\ tpc[t] = "createChannel"
    /\ connOpen[tref[t]]
    /\ chanOpen' = [chanOpen EXCEPT ![tref[t]] = TRUE]
    /\ channel' = tref[t]
    /\ tpc' = [tpc EXCEPT ![t] = "topology"]
    /\ ttopo' = [ttopo EXCEPT ![t] = 0]
    /\ UNCHANGED <<connection, connOpen, handlers, declared, subscribed,
                   tkind, tref, everConnected, retried, envVars, callVars, subVars>>
    /\ UNCHANGED orderVars

\* connect(): createChannel() rejects, its connection having closed.
CreateChannelFail(t) ==
    /\ tpc[t] = "createChannel"
    /\ ~connOpen[tref[t]]
    /\ Fail(t)
    /\ UNCHANGED <<connVars, fieldVars, callVars, subVars>>
    /\ UNCHANGED orderVars

\* Faulty variant: only onModuleInit sets the subscriptions up.
SubscribesAtBootOnly(t) == IF tkind[t] = "init" THEN "subscribe" ELSE "idle"

\* What an activation does when connect() has returned: onModuleInit and
\* reconnect() alike call setupSubscriptions() (lines 31, 96).
AfterConnect(t) == "subscribe"

\* connect(): one assertExchange / assertQueue / bindQueue of lines 47-70
\* resolves.  The next one is sent on this.channel as it is then; after the
\* last, setupErrorHandlers() installs the listeners on this.connection
\* (lines 72, 79-90), connect() returns and setupSubscriptions() sends its
\* consume on this.channel (lines 214, 235).
TopologyOk(t) ==
    /\ tpc[t] = "topology"
    /\ chanOpen[tref[t]]
    /\ declared' = [declared EXCEPT ![tref[t]] = @ \cup {ttopo[t] + 1}]
    /\ ttopo' = [ttopo EXCEPT ![t] = @ + 1]
    /\ tref' = [tref EXCEPT ![t] = channel]
    /\ IF ttopo[t] + 1 = TopologySteps
       THEN /\ handlers' = [handlers EXCEPT ![connection] = @ + 1]
            /\ tpc' = [tpc EXCEPT ![t] = AfterConnect(t)]
            /\ everConnected' = TRUE
       ELSE UNCHANGED <<handlers, tpc, everConnected>>
    /\ UNCHANGED retried
    /\ UNCHANGED <<connOpen, chanOpen, subscribed, tkind, fieldVars, envVars,
                   callVars, subVars>>
    /\ UNCHANGED orderVars

\* connect(): a topology declaration rejects, its channel being closed.
TopologyFail(t) ==
    /\ tpc[t] = "topology"
    /\ ~chanOpen[tref[t]]
    /\ Fail(t)
    /\ UNCHANGED <<connVars, fieldVars, callVars, subVars>>
    /\ UNCHANGED orderVars

\* subscribe(): channel.consume resolves (line 214); setupSubscriptions and
\* with it onModuleInit or reconnect() return.
SubscribeOk(t) ==
    /\ tpc[t] = "subscribe"
    /\ chanOpen[tref[t]]
    /\ subscribed' = [subscribed EXCEPT ![tref[t]] = @ + 1]
    /\ tpc' = [tpc EXCEPT ![t] = "idle"]
    /\ tref' = [tref EXCEPT ![t] = NoConn]
    /\ lifecycle' = IF tkind[t] = "init" THEN "running" ELSE lifecycle
    /\ UNCHANGED <<connOpen, chanOpen, handlers, declared, tkind, ttopo,
                   everConnected, retried, fieldVars, brokerUp, outagesLeft, repliesLeft, callsLeft,
                   msgsLeft, stopsLeft, callVars, subVars>>
    /\ UNCHANGED orderVars

\* subscribe(): channel.consume rejects; the error is logged and rethrown
\* (lines 227-230).
SubscribeFail(t) ==
    /\ tpc[t] = "subscribe"
    /\ ~chanOpen[tref[t]]
    /\ Fail(t)
    /\ UNCHANGED <<connVars, fieldVars, callVars, subVars>>
    /\ UNCHANGED orderVars

\* The retry timer of line 99 fires: reconnect() runs again, cleanup()
\* first (lines 92-94, 103-110).
RetryTimer(t) ==
    /\ tpc[t] = "retryWait"
    /\ LET start == CleanupStart(channel, connection, chanOpen, connOpen)
       IN /\ tpc' = [tpc EXCEPT ![t] = start[1]]
          /\ tref' = [tref EXCEPT ![t] = start[2]]
    /\ retried' = TRUE
    /\ UNCHANGED <<tkind, ttopo, everConnected, envVars, connVars, fieldVars,
                   callVars, subVars>>
    /\ UNCHANGED orderVars

\* cleanup(): `await this.channel.close()` settles (line 106).  Resolved,
\* connection.close() is called on this.connection (line 109); rejected
\* (the channel closed in the meantime), the catch ends cleanup.
CleanupChannelDone(t) ==
    /\ tpc[t] = "cleanupChan"
    /\ IF chanOpen[tref[t]]
       THEN /\ chanOpen' = [chanOpen EXCEPT ![tref[t]] = FALSE]
            /\ ChannelsClosed({tref[t]})
            /\ UNCHANGED responseEmitter
            /\ IF connection # NoConn /\ connOpen[connection]
               THEN /\ tpc' = [tpc EXCEPT ![t] = "cleanupConn"]
                    /\ tref' = [tref EXCEPT ![t] = connection]
               ELSE /\ tpc' = [tpc EXCEPT ![t] = AfterCleanup(t)]
                    /\ tref' = [tref EXCEPT ![t] = NoConn]
       ELSE /\ tpc' = [tpc EXCEPT ![t] = AfterCleanup(t)]
            /\ tref' = [tref EXCEPT ![t] = NoConn]
            /\ UNCHANGED <<chanOpen, callVars>>
    /\ UNCHANGED <<connOpen, handlers, declared, subscribed, tkind, ttopo,
                   everConnected, retried, fieldVars, envVars, subVars>>
    /\ UNCHANGED orderVars

\* cleanup(): `await this.connection.close()` settles (line 109); cleanup
\* returns and connect() starts (line 95).  The closed connection emits
\* 'close', and every listener installed on it starts a reconnect() of its
\* own (lines 84-89).
CleanupConnectionDone(t) ==
    /\ tpc[t] = "cleanupConn"
    /\ IF connOpen[tref[t]]
       THEN LET k == tref[t]
                cn == [connOpen EXCEPT ![k] = FALSE]
                ch == [chanOpen EXCEPT ![k] = FALSE]
                sp == SpawnReconnects({k}, ch, cn)
            IN /\ Cardinality(FreeTasks) >= sp.n
               /\ connOpen' = cn
               /\ chanOpen' = ch
               /\ ChannelsClosed({k})
               /\ responseEmitter' = RegistryOnClose(responseEmitter)
               /\ tpc' = [sp.pcs EXCEPT ![t] = AfterCleanup(t)]
               /\ tref' = [sp.refs EXCEPT ![t] = NoConn]
               /\ tkind' = sp.kinds
               /\ ttopo' = sp.topos
       ELSE /\ tpc' = [tpc EXCEPT ![t] = AfterCleanup(t)]
            /\ tref' = [tref EXCEPT ![t] = NoConn]
            /\ UNCHANGED <<connOpen, chanOpen, tkind, ttopo, callVars>>
    /\ UNCHANGED <<handlers, declared, subscribed, everConnected, retried, fieldVars,
                   envVars, subVars>>
    /\ UNCHANGED orderVars

\* The broker goes away: every live connection closes and emits 'close'
\* (after 'error', whose listener only logs, lines 80-82); the listeners
\* start reconnect() (lines 84-89).
BrokerDown ==
    /\ brokerUp
    /\ outagesLeft > 0
    /\ LET K == {k \in Conns : connOpen[k]}
           cn == [k \in ConnIds |-> FALSE]
           ch == [k \in ConnIds |-> FALSE]
           sp == SpawnReconnects(K, ch, cn)
       IN /\ Cardinality(FreeTasks) >= sp.n
          /\ connOpen' = cn
          /\ chanOpen' = ch
          /\ ChannelsClosed(K)
          /\ responseEmitter' = RegistryOnClose(responseEmitter)
          /\ tpc' = sp.pcs
          /\ tref' = sp.refs
          /\ tkind' = sp.kinds
          /\ ttopo' = sp.topos
    /\ brokerUp' = FALSE
    /\ outagesLeft' = outagesLeft - 1
    /\ UNCHANGED <<repliesLeft, callsLeft, msgsLeft, stopsLeft, lifecycle,
                   handlers, declared, subscribed, everConnected, retried, fieldVars, subVars>>
    /\ UNCHANGED orderVars

\* The broker is reachable again.
BrokerUp ==
    /\ ~brokerUp
    /\ brokerUp' = TRUE
    /\ UNCHANGED <<outagesLeft, repliesLeft, callsLeft, msgsLeft, stopsLeft, lifecycle,
                   connVars, fieldVars, taskVars, callVars, subVars>>
    /\ UNCHANGED orderVars


\* ------------------------------------------------ publishWithResponse

\* Message bodies on the wire: Buffer.from(JSON.stringify(x)) (line 177) is
\* the JSON text of x; a peer may also send bytes that are no JSON text.
JSONstringify(x) == <<"json", x>>
NotJSON == <<"raw">>
Bodies == {JSONstringify(p) : p \in Payloads} \cup {NotJSON}

\* JSON.parse(msg.content.toString()) (lines 155, 216): the value, or a
\* thrown SyntaxError.
JSONparse(b) ==
    IF b[1] = "json" THEN [ok |-> TRUE, value |-> b[2]]
    ELSE [ok |-> FALSE, value |-> 0]

\* this.channel.deleteQueue(queue) (lines 140, 165, 187) on this.channel as
\* it is at the call: the state of call c's reply queue afterwards.  On a
\* closed channel the request is rejected and nothing is deleted; the
\* rejection is logged or swallowed.
QueueAfterDelete(c) ==
    IF channel # NoConn /\ chanOpen[channel] /\ queue[c] = "declared"
       /\ callCh[c] = channel
    THEN "deleted" ELSE queue[c]

\* resolve / reject of the call's promise as its caller sees it: the first
\* settlement wins, later ones are ignored by the promise.
Settled(c, o) == IF outcome[c] = "none" THEN o ELSE outcome[c]

\* The guard of line 122: `!this.channel`.
ChannelMissing == channel = NoConn

\* Faulty variant: no deadline timer is armed.
NoTimeout == "none"

\* setTimeout(..., timeout) of lines 137-143: the state of the new timer.
SetTimeout == "armed"

\* this.responseEmitter.delete(correlationId) in the timer callback
\* (line 138), in the catch (line 186) and in the consumer (line 160).
\* Faulty variants: the timer callback, or the catch, leaves the entry in place.
AfterTimeoutKept(reg, c) == reg
AfterCatchKept(reg, c) == reg

AfterTimeout(reg, c) == reg \ {c}
AfterCatch(reg, c) == reg \ {c}
AfterResolve(reg, c) == reg \ {c}

\* Faulty variants: the consumer takes any message for its own, or resolves without
\* looking its entry up.
MatchesAny(msg, c) == TRUE
EmitterDataUnchecked(c) == TRUE

\* The consumer's test of line 154 and its lookup of lines 156-158.
Matches(msg, c) == msg.correlationId = c
EmitterData(c) == c \in responseEmitter

\* The catch of lines 185-189 up to its await: the registry entry is
\* removed and deletion of the reply queue is requested.
CatchBlock(c, err) ==
    /\ responseEmitter' = AfterCatch(responseEmitter, c)
    /\ delReqs' = [delReqs EXCEPT ![c] = @ + 1]
    /\ queue' = [queue EXCEPT ![c] = QueueAfterDelete(c)]
    /\ callErr' = [callErr EXCEPT ![c] = err]
    /\ pc' = [pc EXCEPT ![c] = "catch"]

\* The service as a caller finds it once a reconnect() that needed the retry
\* timer has returned: no activation of connect() or cleanup() in flight,
\* this.connection and this.channel open.
Reconnected ==
    /\ retried
    /\ lifecycle = "running"
    /\ connOpen[connection] /\ chanOpen[channel]
    /\ \A t \in Tasks : tpc[t] = "idle"

\* publishWithResponse is called (lines 116-134): the guard of line 122,
\* then assertQueue for the reply queue is sent on this.channel.
CallPublishWithResponse(c, bad) ==
    /\ pc[c] = "idle"
    /\ \A d \in Calls : d < c => pc[d] # "idle"
    /\ callsLeft > 0
    /\ callsLeft' = callsLeft - 1
    /\ sinceReconnect' = [sinceReconnect EXCEPT ![c] = Reconnected]
    /\ IF ChannelMissing
       THEN /\ pc' = [pc EXCEPT ![c] = "done"]
            /\ outcome' = [outcome EXCEPT ![c] = "ChannelNotInitialized"]
            /\ callerEvents' = [callerEvents EXCEPT ![c] = @ + 1]
            /\ UNCHANGED <<badMsg, callCh>>
       ELSE /\ pc' = [pc EXCEPT ![c] = "assert"]
            /\ badMsg' = [badMsg EXCEPT ![c] = bad]
            /\ callCh' = [callCh EXCEPT ![c] = channel]
            /\ UNCHANGED <<outcome, callerEvents>>
    /\ UNCHANGED <<callErr, result, timer, queue, consumer, inbox, published,
                   delReqs, orphanRejects, resolvedBy, foreignSeen, responseEmitter, brokerUp,
                   outagesLeft, repliesLeft, msgsLeft, stopsLeft, lifecycle,
                   connVars, fieldVars, taskVars, subVars>>

\* publishWithResponse called by a caller other than createOrder.
PublishWithResponse(c, bad) ==
    /\ CallPublishWithResponse(c, bad)
    /\ UNCHANGED orderVars

\* assertQueue resolves (line 131).  The promise executor arms the timer,
\* stores the registry entry and registers the consumer (lines 136-171);
\* the request is published (lines 174-182) and the promise is returned.
\* JSON.stringify throwing on the message, or publish throwing on a closed
\* channel, enters the catch (lines 185-187) with timer and entry in place.
AssertQueueOk(c) ==
    /\ pc[c] = "assert"
    /\ chanOpen[callCh[c]]
    /\ timer' = [timer EXCEPT ![c] = SetTimeout]
    /\ consumer' = [consumer EXCEPT ![c] =
                      IF chanOpen[channel] /\ channel = callCh[c]
                      THEN channel ELSE NoConn]
    /\ IF badMsg[c] \/ ~chanOpen[channel]
       THEN /\ responseEmitter' = AfterCatch(responseEmitter \cup {c}, c)
            /\ delReqs' = [delReqs EXCEPT ![c] = @ + 1]
            /\ queue' = [queue EXCEPT ![c] =
                           IF chanOpen[channel] /\ callCh[c] = channel
                           THEN "deleted" ELSE "declared"]
            /\ callErr' = [callErr EXCEPT ![c] = "PublishFailure"]
            /\ pc' = [pc EXCEPT ![c] = "catch"]
            /\ UNCHANGED published
       ELSE /\ responseEmitter' = responseEmitter \cup {c}
            /\ queue' = [queue EXCEPT ![c] = "declared"]
            /\ published' = [published EXCEPT ![c] = TRUE]
            /\ pc' = [pc EXCEPT ![c] = "await"]
            /\ UNCHANGED <<delReqs, callErr>>
    /\ UNCHANGED <<badMsg, callCh, outcome, result, inbox, callerEvents,
                   orphanRejects, resolvedBy, foreignSeen, sinceReconnect,
                   envVars, connVars, fieldVars, taskVars, subVars>>
    /\ UNCHANGED orderVars

\* assertQueue rejects, its channel having closed: the catch runs with no
\* timer armed and no entry stored (lines 185-187).
AssertQueueFail(c) ==
    /\ pc[c] = "assert"
    /\ ~chanOpen[callCh[c]]
    /\ CatchBlock(c, "ChannelClosed")
    /\ UNCHANGED <<badMsg, callCh, outcome, result, timer, consumer, inbox,
                   published, callerEvents, orphanRejects, resolvedBy, foreignSeen,
                   sinceReconnect,
                   envVars, connVars, fieldVars, taskVars, subVars>>
    /\ UNCHANGED orderVars

\* The catch's `await deleteQueue(...).catch(() => {})` settles and the
\* error is rethrown to the caller (lines 187-188).
CatchRethrow(c) ==
    /\ pc[c] = "catch"
    /\ pc' = [pc EXCEPT ![c] = "done"]
    /\ outcome' = [outcome EXCEPT ![c] = callErr[c]]
    /\ callerEvents' = [callerEvents EXCEPT ![c] = @ + 1]
    /\ UNCHANGED <<badMsg, callCh, callErr, result, timer, queue, consumer,
                   inbox, published, delReqs, orphanRejects, resolvedBy,
                   foreignSeen, sinceReconnect, responseEmitter, envVars, connVars,
                   fieldVars, taskVars, subVars>>
    /\ UNCHANGED orderVars

\* The deadline timer's callback (lines 137-143): the entry is deleted,
\* deletion of the reply queue is requested, the promise is rejected with
\* 'Request timeout'.  A call that left through the catch no longer has a
\* caller on this promise: the rejection goes unobserved.
TimerCallback(c) ==
    /\ timer[c] = "armed"
    /\ timer' = [timer EXCEPT ![c] = "fired"]
    /\ responseEmitter' = AfterTimeout(responseEmitter, c)
    /\ delReqs' = [delReqs EXCEPT ![c] = @ + 1]
    /\ queue' = [queue EXCEPT ![c] = QueueAfterDelete(c)]
    /\ IF pc[c] = "await"
       THEN /\ outcome' = [outcome EXCEPT ![c] = Settled(c, "RequestTimeout")]
            /\ callerEvents' = [callerEvents EXCEPT ![c] = @ + 1]
            /\ pc' = [pc EXCEPT ![c] = "done"]
            /\ UNCHANGED orphanRejects
       ELSE /\ orphanRejects' = [orphanRejects EXCEPT ![c] = @ + 1]
            /\ UNCHANGED <<outcome, callerEvents, pc>>
    /\ UNCHANGED <<badMsg, callCh, callErr, result, consumer, inbox, published,
                   resolvedBy, foreignSeen, sinceReconnect, envVars, connVars,
                   fieldVars, taskVars, subVars>>
    /\ UNCHANGED orderVars

\* The consumer callback of call c on its reply queue (lines 151-168) for
\* the next delivery: a message with another correlation id is ignored; on
\* a match the body is parsed, a present entry is removed with its timer
\* cleared and the promise resolved, and deletion of the reply queue is
\* requested whether or not an entry was present.
ReplyConsumer(c) ==
    /\ inbox[c] # <<>>
    /\ consumer[c] # NoConn /\ chanOpen[consumer[c]]
    /\ inbox' = [inbox EXCEPT ![c] = Tail(@)]
    /\ LET msg == Head(inbox[c])
           response == JSONparse(msg.body)
       IN IF Matches(msg, c) /\ response.ok
          THEN /\ IF EmitterData(c)
                  THEN /\ timer' = [timer EXCEPT ![c] = "cleared"]
                       /\ responseEmitter' = AfterResolve(responseEmitter, c)
                       /\ outcome' = [outcome EXCEPT ![c] = Settled(c, "Resolved")]
                       /\ result' = [result EXCEPT ![c] =
                                       IF outcome[c] = "none" THEN response.value ELSE @]
                       /\ resolvedBy' = [resolvedBy EXCEPT ![c] =
                                           IF outcome[c] = "none" THEN msg ELSE @]
                       /\ callerEvents' = [callerEvents EXCEPT ![c] = @ + 1]
                       /\ pc' = [pc EXCEPT ![c] = "done"]
                  ELSE UNCHANGED <<timer, responseEmitter, outcome, result,
                                   resolvedBy, callerEvents, pc>>
               /\ delReqs' = [delReqs EXCEPT ![c] = @ + 1]
               /\ queue' = [queue EXCEPT ![c] = QueueAfterDelete(c)]
               /\ UNCHANGED foreignSeen
          ELSE /\ foreignSeen' = [foreignSeen EXCEPT ![c] = @ \/ ~Matches(msg, c)]
               /\ UNCHANGED <<timer, responseEmitter, outcome, result,
                              resolvedBy, callerEvents, pc, delReqs, queue>>
    /\ UNCHANGED <<badMsg, callCh, callErr, consumer, published, orphanRejects,
                   sinceReconnect, envVars, connVars, fieldVars, taskVars, subVars>>
    /\ UNCHANGED orderVars

\* A peer publishes to call c's reply queue a message carrying correlation
\* id d: the responder's reply to the request (d = c), a duplicate of it,
\* or a message tagged with another call's id.
Reply(c, d, b) ==
    /\ repliesLeft > 0
    /\ queue[c] = "declared"
    /\ consumer[c] # NoConn /\ chanOpen[consumer[c]]
    /\ inbox' = [inbox EXCEPT ![c] = Append(@, [correlationId |-> d, body |-> b])]
    /\ repliesLeft' = repliesLeft - 1
    /\ UNCHANGED <<brokerUp, outagesLeft, callsLeft, msgsLeft, stopsLeft, lifecycle, pc, badMsg, callCh, callErr, outcome,
                   result, timer, queue, consumer, published, delReqs,
                   callerEvents, orphanRejects, resolvedBy, foreignSeen,
                   sinceReconnect, responseEmitter,
                   connVars, fieldVars, taskVars, subVars>>
    /\ UNCHANGED orderVars


\* ------------------------------------------------------- subscribe

\* this.channel.ack(msg) / this.channel.nack(msg, false, false) (lines
\* 218, 224) reach the broker when this.channel is open; on a closed
\* channel amqplib throws and nothing is sent.
CanSend == chanOpen[channel]

\* The try / catch of lines 215-225 once the handler has settled: the catch
\* runs when the handler rejected or when ack threw.
AckSent(handlerOk) == handlerOk /\ CanSend
CatchRuns(handlerOk) == ~handlerOk \/ ~CanSend
NackSent(handlerOk) == CatchRuns(handlerOk) /\ CanSend

\* The consumer callback of subscribe (lines 214-226) up to its await: the
\* body is parsed and the handler called; a body that does not parse goes
\* to the catch, which rejects the message without requeue.
SubDeliver(m, k, b, handlerOk) ==
    /\ mpc[m] = "queued"
    /\ \A n \in Msgs : n < m => mpc[n] # "queued"
    /\ msgsLeft > 0
    /\ msgsLeft' = msgsLeft - 1
    /\ subscribed[k] > 0 /\ chanOpen[k]
    /\ mch' = [mch EXCEPT ![m] = k]
    /\ mbody' = [mbody EXCEPT ![m] = b]
    /\ IF JSONparse(b).ok
       THEN /\ mpc' = [mpc EXCEPT ![m] = "handling"]
            /\ mhandlerOk' = [mhandlerOk EXCEPT ![m] = handlerOk]
            /\ UNCHANGED <<acks, nacks, mackCh>>
       ELSE /\ mpc' = [mpc EXCEPT ![m] = "done"]
            /\ nacks' = [nacks EXCEPT ![m] = IF CanSend THEN @ + 1 ELSE @]
            /\ mackCh' = [mackCh EXCEPT ![m] = IF CanSend THEN channel ELSE @]
            /\ UNCHANGED <<mhandlerOk, acks>>
    /\ UNCHANGED <<brokerUp, outagesLeft, repliesLeft, callsLeft, stopsLeft,
                   lifecycle, connVars, fieldVars, taskVars, callVars>>
    /\ UNCHANGED orderVars

\* The handler's promise settles (line 217).  Fulfilled: ack on
\* this.channel (line 218); should ack throw, the catch runs nack (line
\* 224), which throws likewise.  Rejected: nack without requeue.
SubHandlerDone(m) ==
    /\ mpc[m] = "handling"
    /\ mpc' = [mpc EXCEPT ![m] = "done"]
    /\ acks' = [acks EXCEPT ![m] = IF AckSent(mhandlerOk[m]) THEN @ + 1 ELSE @]
    /\ nacks' = [nacks EXCEPT ![m] = IF NackSent(mhandlerOk[m]) THEN @ + 1 ELSE @]
    /\ mackCh' = [mackCh EXCEPT ![m] = IF CanSend THEN channel ELSE @]
    /\ UNCHANGED <<mch, mbody, mhandlerOk, envVars, connVars, fieldVars, taskVars, callVars>>
    /\ UNCHANGED orderVars

\* ----------------------------------------------------- OrderService

serviceVars == <<envVars, connVars, fieldVars, taskVars, callVars, subVars>>

\* createOrder's two uses of publishWithResponse: the stock check is
\* the first call of a run, the deduction the second.
CheckCall == 1
DeductCall == 2

\* The replies of the inventory service (StockCheckResponse): success,
\* an optional message, an optional availableStock.
Undefined == "undefined"
StockCheckResponses ==
    { [success |-> TRUE, message |-> Undefined, availableStock |-> TRUE],
      [success |-> TRUE, message |-> Undefined, availableStock |-> FALSE],
      [success |-> FALSE, message |-> "Insufficient stock", availableStock |-> FALSE],
      [success |-> FALSE, message |-> Undefined, availableStock |-> FALSE] }

\* The implementations of logOrderEvent: the module's
\* ElasticsearchLoggerService, whose try / catch swallows a failed index
\* request, and the double of the service's tests, which rejects every call.
Loggers == {"ElasticsearchLoggerService", "rejecting"}

\* Faulty variant: logOrderEvent lets the failure of the index request out.
LogOrderEventThrows == TRUE

\* Whether a call of logOrderEvent rejects.
LogOrderEventRejects == logger = "rejecting"

NoError == [status |-> "none", message |-> "none"]
CallError(c) == [status |-> "Error", message |-> outcome[c]]
RepositoryError == [status |-> "Error", message |-> "repository"]
LoggingError == [status |-> "Error", message |-> "Logging failed"]
TypeError == [status |-> "TypeError", message |-> "availableStock"]

\* Faulty variant: the reply's message is dropped.
DefaultMessageOnly(response) ==
    [status |-> "BAD_REQUEST", message |-> "Insufficient stock available"]

\* new HttpException(message || 'Insufficient stock available', BAD_REQUEST)
\* (lines 50-53).
BadRequest(response) ==
    [status |-> "BAD_REQUEST",
     message |-> IF response.message = Undefined
                 THEN "Insufficient stock available" ELSE response.message]

\* new HttpException('Failed to process order', INTERNAL_SERVER_ERROR)
\* (lines 116-119).
FailedToProcess ==
    [status |-> "INTERNAL_SERVER_ERROR", message |-> "Failed to process order"]

NotReturned == [kind |-> "none", error |-> NoError, status |-> "none"]
Resolves(st) == [kind |-> "resolved", error |-> NoError, status |-> st]
Rejects(e) == [kind |-> "rejected", error |-> e, status |-> "none"]

\* createOrder is called (lines 24-42): publishWithResponse for the stock
\* check, up to its first await.
CreateOrder ==
    /\ opc = "idle"
    /\ createsLeft > 0
    /\ createsLeft' = createsLeft - 1
    /\ CallPublishWithResponse(CheckCall, FALSE)
    /\ opc' = "check"
    /\ UNCHANGED <<handlesLeft, dbFailuresLeft, logger, oerror, oreturn, order,
                   events, served, deducted, hpc, hreturn>>

\* Faulty variant: the reply's success flag is not looked at.
ProceedsAlways(response) == FALSE

\* `!stockCheckResponse.success` (line 45), `!deductionResponse.success`
\* (line 86).
NotSuccess(response) == ~response.success

\* The stock check's promise settles (lines 30-59).  Rejected: the outer
\* catch logs (line 122).  Resolved without success: the event is logged
\* (line 46).  Resolved with success: the price is computed, which throws
\* when the reply has no availableStock, and the order is saved (line 61).
StockCheckSettled ==
    /\ opc = "check"
    /\ pc[CheckCall] = "done"
    /\ IF outcome[CheckCall] # "Resolved"
       THEN /\ oerror' = CallError(CheckCall)
            /\ opc' = "logCreationFailed"
       ELSE IF NotSuccess(result[CheckCall])
       THEN /\ opc' = "logCheckFailed"
            /\ UNCHANGED oerror
       ELSE IF ~result[CheckCall].availableStock
       THEN /\ oerror' = TypeError
            /\ opc' = "logCreationFailed"
       ELSE /\ opc' = "save"
            /\ UNCHANGED oerror
    /\ UNCHANGED <<createsLeft, handlesLeft, dbFailuresLeft, logger, oreturn,
                   order, events, served, deducted, hpc, hreturn, serviceVars>>

\* logOrderEvent('Stock check failed', ...) settles (line 46) and the
\* BAD_REQUEST exception is thrown (lines 50-53), into the outer catch.
StockCheckFailedLogged ==
    /\ opc = "logCheckFailed"
    /\ events' = events \cup {"Stock check failed"}
    /\ oerror' = IF LogOrderEventRejects THEN LoggingError
                 ELSE BadRequest(result[CheckCall])
    /\ opc' = "logCreationFailed"
    /\ UNCHANGED <<createsLeft, handlesLeft, dbFailuresLeft, logger, oreturn,
                   order, served, deducted, hpc, hreturn, serviceVars>>

\* orderRepository.createOrder(..., PENDING) resolves (lines 61-67) and
\* publishWithResponse is called for the deduction (lines 71-84).
OrderSaved ==
    /\ opc = "save"
    /\ order' = "PENDING"
    /\ CallPublishWithResponse(DeductCall, FALSE)
    /\ opc' = "deduct"
    /\ UNCHANGED <<createsLeft, handlesLeft, dbFailuresLeft, logger, oerror,
                   oreturn, events, served, deducted, hpc, hreturn>>

\* orderRepository.createOrder rejects (newOrder.save() failed): the outer
\* catch logs (line 122).
OrderSaveFails ==
    /\ opc = "save"
    /\ dbFailuresLeft > 0
    /\ dbFailuresLeft' = dbFailuresLeft - 1
    /\ oerror' = RepositoryError
    /\ opc' = "logCreationFailed"
    /\ UNCHANGED <<createsLeft, handlesLeft, logger, oreturn, order, events,
                   served, deducted, hpc, hreturn, serviceVars>>

\* The deduction's promise settles (lines 71-96).  Resolved with success:
\* updateOrderStatus(CONFIRMED) is called.  Rejected, or resolved without
\* success (line 87 throws): the inner catch calls updateOrderStatus(FAILED)
\* (line 106).
DeductSettled ==
    /\ opc = "deduct"
    /\ pc[DeductCall] = "done"
    /\ opc' = IF outcome[DeductCall] = "Resolved" /\ ~NotSuccess(result[DeductCall])
              THEN "confirm" ELSE "markFailed"
    /\ UNCHANGED <<createsLeft, handlesLeft, dbFailuresLeft, logger, oerror,
                   oreturn, order, events, served, deducted, hpc, hreturn,
                   serviceVars>>

\* updateOrderStatus(order.id, CONFIRMED) resolves (lines 93-96);
\* logOrderEvent('Order confirmed', ...) is called (line 98).
OrderConfirmed ==
    /\ opc = "confirm"
    /\ order' = "CONFIRMED"
    /\ opc' = "logConfirmed"
    /\ UNCHANGED <<createsLeft, handlesLeft, dbFailuresLeft, logger, oerror,
                   oreturn, events, served, deducted, hpc, hreturn, serviceVars>>

\* updateOrderStatus(order.id, CONFIRMED) rejects: the inner catch calls
\* updateOrderStatus(FAILED) (line 106).
OrderConfirmFails ==
    /\ opc = "confirm"
    /\ dbFailuresLeft > 0
    /\ dbFailuresLeft' = dbFailuresLeft - 1
    /\ opc' = "markFailed"
    /\ UNCHANGED <<createsLeft, handlesLeft, logger, oerror, oreturn, order,
                   events, served, deducted, hpc, hreturn, serviceVars>>

\* logOrderEvent('Order confirmed', ...) settles (lines 98-103): resolved,
\* createOrder returns the confirmed order; rejected, the inner catch runs.
OrderConfirmedLogged ==
    /\ opc = "logConfirmed"
    /\ events' = events \cup {"Order confirmed"}
    /\ IF LogOrderEventRejects
       THEN /\ opc' = "markFailed"
            /\ UNCHANGED oreturn
       ELSE /\ opc' = "done"
            /\ oreturn' = Resolves(order)
    /\ UNCHANGED <<createsLeft, handlesLeft, dbFailuresLeft, logger, oerror,
                   order, served, deducted, hpc, hreturn, serviceVars>>

\* Faulty variant: the inner catch leaves the order as it is.
StatusKept == order

\* The status the inner catch stores (lines 106-109).
StatusOnFailure == "FAILED"

\* updateOrderStatus(order.id, FAILED) resolves (lines 106-109);
\* logOrderEvent('Stock deduction failed', ...) is called (line 111).
OrderMarkedFailed ==
    /\ opc = "markFailed"
    /\ order' = StatusOnFailure
    /\ opc' = "logDeductFailed"
    /\ UNCHANGED <<createsLeft, handlesLeft, dbFailuresLeft, logger, oerror,
                   oreturn, events, served, deducted, hpc, hreturn, serviceVars>>

\* updateOrderStatus(order.id, FAILED) rejects: the error leaves the inner
\* catch for the outer one (line 121).
OrderMarkFailedFails ==
    /\ opc = "markFailed"
    /\ dbFailuresLeft > 0
    /\ dbFailuresLeft' = dbFailuresLeft - 1
    /\ oerror' = RepositoryError
    /\ opc' = "logCreationFailed"
    /\ UNCHANGED <<createsLeft, handlesLeft, logger, oreturn, order, events,
                   served, deducted, hpc, hreturn, serviceVars>>

\* logOrderEvent('Stock deduction failed', ...) settles (line 111) and the
\* INTERNAL_SERVER_ERROR exception is thrown (lines 116-119), into the
\* outer catch.
DeductionFailedLogged ==
    /\ opc = "logDeductFailed"
    /\ events' = events \cup {"Stock deduction failed"}
    /\ oerror' = IF LogOrderEventRejects THEN LoggingError ELSE FailedToProcess
    /\ opc' = "logCreationFailed"
    /\ UNCHANGED <<createsLeft, handlesLeft, dbFailuresLeft, logger, oreturn,
                   order, served, deducted, hpc, hreturn, serviceVars>>

\* The outer catch (lines 121-127): logOrderEvent('Order creation failed',
\* ...) settles and the error is rethrown to the caller.
CreationFailedLogged ==
    /\ opc = "logCreationFailed"
    /\ events' = events \cup {"Order creation failed"}
    /\ oreturn' = Rejects(IF LogOrderEventRejects THEN LoggingError ELSE oerror)
    /\ opc' = "done"
    /\ UNCHANGED <<createsLeft, handlesLeft, dbFailuresLeft, logger, oerror,
                   order, served, deducted, hpc, hreturn, serviceVars>>

\* The inventory service processes the request of call c and answers with
\* response r; a deduction it answers with success it has applied.  The
\* reply reaches the call's reply queue while that queue exists and has
\* its consumer.
InventoryReplies(c, r) ==
    /\ published[c]
    /\ c \notin served
    /\ served' = served \cup {c}
    /\ deducted' = (deducted \/ (c = DeductCall /\ r.success))
    /\ inbox' = [inbox EXCEPT ![c] =
                   IF /\ queue[c] = "declared"
                      /\ consumer[c] # NoConn /\ chanOpen[consumer[c]]
                   THEN Append(@, [correlationId |-> c, body |-> JSONstringify(r)])
                   ELSE @]
    /\ UNCHANGED <<pc, badMsg, callCh, callErr, outcome, result, timer, queue,
                   consumer, published, delReqs, callerEvents, orphanRejects,
                   resolvedBy, foreignSeen, sinceReconnect, responseEmitter,
                   envVars, connVars, fieldVars, taskVars, subVars>>
    /\ UNCHANGED <<createsLeft, handlesLeft, dbFailuresLeft, logger, opc, oerror,
                   oreturn, order, events, hpc, hreturn>>

\* handleStockUpdate is called (lines 146-151), up to its first await.
HandleStockUpdate ==
    /\ hpc = "idle"
    /\ handlesLeft > 0
    /\ handlesLeft' = handlesLeft - 1
    /\ hpc' = "log"
    /\ UNCHANGED <<createsLeft, dbFailuresLeft, logger, createVars, hreturn,
                   serviceVars>>

\* logOrderEvent('Stock Update', ...) settles (lines 148-155): resolved,
\* handleStockUpdate returns; rejected, the catch calls logOrderEvent
\* again (line 156).
StockUpdateLogged ==
    /\ hpc = "log"
    /\ IF LogOrderEventRejects
       THEN /\ hpc' = "catch"
            /\ UNCHANGED hreturn
       ELSE /\ hpc' = "done"
            /\ hreturn' = "completed"
    /\ UNCHANGED <<createsLeft, handlesLeft, dbFailuresLeft, logger, createVars,
                   serviceVars>>

\* The catch's logOrderEvent settles (lines 156-161): resolved,
\* handleStockUpdate returns; rejected, the rejection leaves
\* handleStockUpdate.
StockUpdateFailureLogged ==
    /\ hpc = "catch"
    /\ hpc' = "done"
    /\ hreturn' = IF LogOrderEventRejects THEN "raised" ELSE "completed"
    /\ UNCHANGED <<createsLeft, handlesLeft, dbFailuresLeft, logger, createVars,
                   serviceVars>>

\* What is asked of OrderService in one run, and the state it starts in.
NoOrders ==
    [creates |-> 0, handles |-> 0, dbFailures |-> 0,
     logger |-> "ElasticsearchLoggerService"]

OrderServiceInit(w) ==
    /\ createsLeft = w.creates
    /\ handlesLeft = w.handles
    /\ dbFailuresLeft = w.dbFailures
    /\ logger = w.logger
    /\ opc = "idle"
    /\ oerror = NoError
    /\ oreturn = NotReturned
    /\ order = "none"
    /\ events = {}
    /\ served = {}
    /\ deducted = FALSE
    /\ hpc = "idle"
    /\ hreturn = "none"

\* ------------------------------------------------------ specification

\* What the environment is going to ask of the service in one run: calls
\* with replies, deliveries to the subscription, broker outages, a shutdown.
Workloads ==
    { [calls |-> NumCalls, replies |-> MaxReplies, msgs |-> 0,
       outages |-> MaxOutages, stops |-> 0],
      [calls |-> 1, replies |-> 1, msgs |-> NumMsgs,
       outages |-> MaxOutages, stops |-> 0],
      [calls |-> 0, replies |-> 0, msgs |-> 0,
       outages |-> MaxOutages, stops |-> 1] }

ServiceInit(w) ==
    /\ brokerUp \in BOOLEAN
    /\ outagesLeft = w.outages
    /\ repliesLeft = w.replies
    /\ callsLeft = w.calls
    /\ msgsLeft = w.msgs
    /\ stopsLeft = w.stops
    /\ lifecycle = "new"
    /\ connOpen = [k \in ConnIds |-> FALSE]
    /\ chanOpen = [k \in ConnIds |-> FALSE]
    /\ handlers = [k \in ConnIds |-> 0]
    /\ declared = [k \in ConnIds |-> {}]
    /\ subscribed = [k \in ConnIds |-> 0]
    /\ connection = NoConn
    /\ channel = NoConn
    /\ responseEmitter = {}
    /\ everConnected = FALSE
    /\ retried = FALSE
    /\ resolvedBy = [c \in Calls |-> [correlationId |-> 0, body |-> NotJSON]]
    /\ foreignSeen = [c \in Calls |-> FALSE]
    /\ sinceReconnect = [c \in Calls |-> FALSE]
    /\ tpc = [t \in Tasks |-> "idle"]
    /\ tkind = [t \in Tasks |-> "reconnect"]
    /\ tref = [t \in Tasks |-> NoConn]
    /\ ttopo = [t \in Tasks |-> 0]
    /\ pc = [c \in Calls |-> "idle"]
    /\ badMsg = [c \in Calls |-> FALSE]
    /\ callCh = [c \in Calls |-> NoConn]
    /\ callErr = [c \in Calls |-> "none"]
    /\ outcome = [c \in Calls |-> "none"]
    /\ result = [c \in Calls |-> 0]
    /\ timer = [c \in Calls |-> "none"]
    /\ queue = [c \in Calls |-> "none"]
    /\ consumer = [c \in Calls |-> NoConn]
    /\ inbox = [c \in Calls |-> <<>>]
    /\ published = [c \in Calls |-> FALSE]
    /\ delReqs = [c \in Calls |-> 0]
    /\ callerEvents = [c \in Calls |-> 0]
    /\ orphanRejects = [c \in Calls |-> 0]
    /\ mpc = [m \in Msgs |-> "queued"]
    /\ mch = [m \in Msgs |-> NoConn]
    /\ mbody = [m \in Msgs |-> NotJSON]
    /\ mhandlerOk = [m \in Msgs |-> TRUE]
    /\ acks = [m \in Msgs |-> 0]
    /\ nacks = [m \in Msgs |-> 0]
    /\ mackCh = [m \in Msgs |-> NoConn]

\* A run in which OrderService is not used.
InitWith(w) == ServiceInit(w) /\ OrderServiceInit(NoOrders)

Init == \E w \in Workloads : InitWith(w)

\* The awaits of connect() and setupSubscriptions(), and those of cleanup().
ConnectStep(t) ==
    \/ ConnectOk(t)
    \/ ConnectFail(t)
    \/ CreateChannelOk(t)
    \/ CreateChannelFail(t)
    \/ TopologyOk(t)
    \/ TopologyFail(t)
    \/ SubscribeOk(t)
    \/ SubscribeFail(t)

CleanupStep(t) ==
    \/ CleanupChannelDone(t)
    \/ CleanupConnectionDone(t)

TaskStep(t) == ConnectStep(t) \/ CleanupStep(t)

CallStep(c) ==
    \/ AssertQueueOk(c)
    \/ AssertQueueFail(c)
    \/ CatchRethrow(c)
    \/ TimerCallback(c)
    \/ ReplyConsumer(c)

Next ==
    \/ OnModuleInit
    \/ OnModuleDestroy
    \/ BrokerDown
    \/ BrokerUp
    \/ \E t \in Tasks : TaskStep(t)
    \/ \E t \in Tasks : RetryTimer(t)
    \/ \E c \in Calls, bad \in BOOLEAN : PublishWithResponse(c, bad)
    \/ \E c \in Calls : CallStep(c)
    \/ \E c \in Calls, d \in Calls, b \in Bodies : Reply(c, d, b)
    \/ \E m \in Msgs, k \in Conns, b \in Bodies, h \in BOOLEAN : SubDeliver(m, k, b, h)
    \/ \E m \in Msgs : SubHandlerDone(m)

Spec == Init /\ [][Next]_vars


\* Calls across an outage: one call and its reply, the broker going down
\* and coming back.  With one outage and no shutdown nothing is open when
\* reconnect() runs cleanup(), which then waits for nothing.  The awaits of a call settle (the channel answers or is
\* closed, which rejects them) and the event loop runs a timer that is due.
CallInit ==
    InitWith([calls |-> 1, replies |-> 1, msgs |-> 0, outages |-> 1, stops |-> 0])

CallNext ==
    \/ OnModuleInit
    \/ BrokerDown
    \/ BrokerUp
    \/ \E t \in Tasks : ConnectStep(t)
    \/ \E t \in Tasks : RetryTimer(t)
    \/ \E c \in Calls, bad \in BOOLEAN : PublishWithResponse(c, bad)
    \/ \E c \in Calls : CallStep(c)
    \/ \E c \in Calls, d \in Calls, b \in Bodies : Reply(c, d, b)

CallFairness ==
    \A c \in Calls :
        /\ WF_vars(AssertQueueOk(c) \/ AssertQueueFail(c))
        /\ WF_vars(CatchRethrow(c))
        /\ WF_vars(TimerCallback(c))

CallSpec == CallInit /\ [][CallNext]_vars /\ CallFairness

\* The reconnect loop on its own: the service boots, the broker goes down
\* and comes back.  Every await of an activation settles, a due timer runs,
\* and the broker comes back after an outage.  A connection attempt takes
\* far less than the 5 s delay of line 99: the retry timer of an activation
\* runs when no other activation is part-way through cleanup() or connect().
ReconnectInit ==
    InitWith([calls |-> 0, replies |-> 0, msgs |-> 0, outages |-> MaxOutages + 1,
              stops |-> 0])

OthersSettled(t) == \A u \in Tasks \ {t} : tpc[u] \in {"idle", "retryWait"}

DueRetryTimer(t) == OthersSettled(t) /\ RetryTimer(t)

ReconnectNext ==
    \/ OnModuleInit
    \/ BrokerDown
    \/ BrokerUp
    \/ \E t \in Tasks : TaskStep(t)
    \/ \E t \in Tasks : DueRetryTimer(t)

ReconnectFairness ==
    /\ WF_vars(BrokerUp)
    /\ \A t \in Tasks : WF_vars(TaskStep(t)) /\ WF_vars(DueRetryTimer(t))

ReconnectSpec == ReconnectInit /\ [][ReconnectNext]_vars /\ ReconnectFairness

\* ------------------------------------------------------------ claims

\* Calls while the service reconnects: the service boots, the broker goes
\* down and comes back, more than once, and a caller uses
\* publishWithResponse at any moment of it.  Retry timers run with the
\* timing of line 99.
OutageInit ==
    InitWith([calls |-> 1, replies |-> 1, msgs |-> 0, outages |-> MaxOutages + 1,
              stops |-> 0])

OutageNext ==
    \/ ReconnectNext
    \/ \E c \in Calls, bad \in BOOLEAN : PublishWithResponse(c, bad)
    \/ \E c \in Calls : CallStep(c)
    \/ \E c \in Calls, d \in Calls, b \in Bodies : Reply(c, d, b)

OutageSpec == OutageInit /\ [][OutageNext]_vars

\* OrderService on top of the service: one createOrder request with the
\* logger the module wires, during which the broker may go down once and
\* a repository operation may fail, or one stock update handled with
\* either logger.
OrderWorkloads ==
    { [creates |-> 1, handles |-> 0, dbFailures |-> MaxDbFailures,
       logger |-> "ElasticsearchLoggerService"] }
    \cup { [creates |-> 0, handles |-> 1, dbFailures |-> 0, logger |-> l] :
             l \in Loggers }

OrderInit ==
    /\ ServiceInit([calls |-> DeductCall, replies |-> 0, msgs |-> 0,
                    outages |-> 1, stops |-> 0])
    /\ \E w \in OrderWorkloads : OrderServiceInit(w)

CreateOrderStep ==
    \/ CreateOrder
    \/ StockCheckSettled
    \/ StockCheckFailedLogged
    \/ OrderSaved
    \/ OrderSaveFails
    \/ DeductSettled
    \/ OrderConfirmed
    \/ OrderConfirmFails
    \/ OrderConfirmedLogged
    \/ OrderMarkedFailed
    \/ OrderMarkFailedFails
    \/ DeductionFailedLogged
    \/ CreationFailedLogged

HandleStockUpdateStep ==
    \/ HandleStockUpdate
    \/ StockUpdateLogged
    \/ StockUpdateFailureLogged

OrderNext ==
    \/ OnModuleInit
    \/ BrokerDown
    \/ BrokerUp
    \/ \E t \in Tasks : ConnectStep(t)
    \/ \E t \in Tasks : RetryTimer(t)
    \/ CreateOrderStep
    \/ HandleStockUpdateStep
    \/ \E c \in Calls : CallStep(c)
    \/ \E c \in Calls, r \in StockCheckResponses : InventoryReplies(c, r)

OrderSpec == OrderInit /\ [][OrderNext]_vars

TypeOK ==
    /\ connection \in ConnIds /\ channel \in ConnIds
    /\ responseEmitter \subseteq Calls
    /\ \A c \in Calls :
         /\ pc[c] \in {"idle", "assert", "catch", "await", "done"}
         /\ timer[c] \in {"none", "armed", "fired", "cleared"}
         /\ queue[c] \in {"none", "declared", "deleted"}
         /\ outcome[c] \in {"none", "Resolved", "RequestTimeout", "PublishFailure",
                            "ChannelClosed", "ChannelNotInitialized"}
    /\ \A t \in Tasks :
         tpc[t] \in {"idle", "connect", "createChannel", "topology", "subscribe",
                     "retryWait", "cleanupChan", "cleanupConn"}
    /\ ~connOpen[NoConn] /\ ~chanOpen[NoConn]
    /\ \A k \in Conns : chanOpen[k] => connOpen[k]

\* C1: a call's caller is handed at most one terminal outcome, exactly one
\* once the call has ended; after the timer fired on a waiting call the
\* outcome is the timeout whatever is delivered later, and a cleared timer
\* means the call was resolved.
C1_ExactlyOneResolution ==
    \A c \in Calls :
        /\ callerEvents[c] <= 1
        /\ (pc[c] = "done") <=> (callerEvents[c] = 1)
        /\ (outcome[c] # "none") <=> (callerEvents[c] = 1)
        /\ (timer[c] = "fired" /\ callErr[c] = "none") => outcome[c] = "RequestTimeout"
        /\ timer[c] = "cleared" => outcome[c] = "Resolved"

\* C1 witness: a call timed out and its consumer has since been handed a
\* late reply with the call's own id (the second deletion request is the
\* consumer's): the caller still has the timeout alone.
C1_LateReplyDropped ==
    \E c \in Calls :
        /\ outcome[c] = "RequestTimeout"
        /\ delReqs[c] >= 2
        /\ callerEvents[c] = 1

\* C2: a resolved call was resolved by a message carrying its own
\* correlation id, and its result is the value that message's body encodes.
C2_NoCrossDelivery ==
    \A c \in Calls :
        outcome[c] = "Resolved" =>
            /\ resolvedBy[c].correlationId = c
            /\ resolvedBy[c].body = JSONstringify(result[c])

\* C2 witness: two calls are outstanding together, one's consumer was handed
\* a message tagged with the other's id, and it was then resolved by its own.
C2_ForeignIgnored ==
    \E c, d \in Calls :
        /\ c # d
        /\ outcome[c] = "Resolved" /\ foreignSeen[c]
        /\ pc[d] = "await"

\* C3: once the timer of a waiting call has fired, the caller has the
\* Request timeout failure and the registry holds no entry for the call, in
\* that state and in every later one.
C3_TimeoutClearsRegistry ==
    \A c \in Calls :
        (timer[c] = "fired" /\ callErr[c] = "none") =>
            /\ outcome[c] = "RequestTimeout"
            /\ pc[c] = "done"
            /\ c \notin responseEmitter

\* C3 witness: a call timed out with no reply ever sent.
C3_TimedOutUnanswered ==
    \E c \in Calls :
        /\ outcome[c] = "RequestTimeout"
        /\ repliesLeft = MaxReplies

ConnectionLostStep == \E k \in Conns : connOpen[k] /\ ~connOpen'[k]

C6_DeleteRequestedOnce ==
    \A c \in Calls :
        queue[c] # "none" =>
            /\ delReqs[c] <= 1
            /\ pc[c] = "done" => delReqs[c] = 1

\* C7: from the step in which publishing failed the registry holds no entry
\* for the call; the rethrow to the caller is the call's next step, enabled
\* whatever the timer does, and hands the caller the publish error.
C7_PublishFailureFailsFast ==
    \A c \in Calls :
        callErr[c] = "PublishFailure" =>
            /\ c \notin responseEmitter
            /\ pc[c] \in {"catch", "done"}
            /\ pc[c] = "catch" => ENABLED CatchRethrow(c)
            /\ pc[c] = "done" => outcome[c] = "PublishFailure"

\* C7 witness: the caller has the publish error while the timer is pending.
C7_RejectedBeforeDeadline ==
    \E c \in Calls : outcome[c] = "PublishFailure" /\ timer[c] = "armed"

CallStarts(c) == pc[c] = "idle" /\ pc'[c] # "idle"

FailsAsNotInitialized(c) ==
    /\ pc'[c] = "done"
    /\ outcome'[c] = "ChannelNotInitialized"
    /\ UNCHANGED <<responseEmitter, timer, queue, consumer, inbox, published, delReqs>>

\* C8: a call made before connect() has returned successfully for the
\* first time fails with the channel-not-initialized error and
\* changes nothing else.
C8_BeforeFirstConnect ==
    [][\A c \in Calls : (CallStarts(c) /\ ~everConnected) => FailsAsNotInitialized(c)]_vars

Decodes(m) == JSONparse(mbody[m]).ok

AckOnlyAfterSuccess ==
    \A m \in Msgs :
        /\ acks[m] + nacks[m] <= 1
        /\ mpc[m] # "done" => acks[m] + nacks[m] = 0
        /\ acks[m] = 1 => Decodes(m) /\ mhandlerOk[m]
        /\ nacks[m] = 1 => ~Decodes(m) \/ ~mhandlerOk[m]

\* C9: every delivered message whose handling has ended was
\* acknowledged or rejected, exactly one of the two; acknowledged only after
\* its handler completed without error, rejected only when the handler failed
\* or the body did not decode.
C9_ExactlyOneAckOrReject ==
    /\ AckOnlyAfterSuccess
    /\ \A m \in Msgs : mpc[m] = "done" => acks[m] + nacks[m] = 1

\* C5: every started call of publishWithResponse returns to its caller,
\* outages and reconnections included.
C5_EveryCallReturns ==
    \A c \in Calls : (pc[c] # "idle") ~> (pc[c] = "done")

\* C5 witness: a call that had published its request lost its consumer
\* with the connection, the service is connected again, and the call has
\* returned (with the timeout).
C5_ReturnedAcrossReconnect ==
    \E c \in Calls :
        /\ pc[c] = "done" /\ outcome[c] = "RequestTimeout"
        /\ published[c] /\ consumer[c] = NoConn
        /\ retried /\ chanOpen[channel]

Connected ==
    /\ lifecycle = "running"
    /\ connOpen[connection] /\ chanOpen[channel]
    /\ \A t \in Tasks : tpc[t] = "idle"

Reconnecting ==
    /\ lifecycle = "running"
    /\ \E t \in Tasks : tkind[t] = "reconnect" /\ tpc[t] # "idle"

AfterSuccess(p) ==
    CASE p = "connect" -> {"createChannel"}
      [] p = "createChannel" -> {"topology"}
      [] p = "topology" -> {"topology", "subscribe"}
      [] p = "subscribe" -> {"idle"}

AttemptFails(t) ==
    /\ tkind[t] = "reconnect"
    /\ tpc[t] \in {"connect", "createChannel", "topology", "subscribe"}
    /\ tpc'[t] # tpc[t]
    /\ tpc'[t] \notin AfterSuccess(tpc[t])

LiveConnections == {k \in Conns : connOpen[k]}

\* C18: at most one connection is open at any time, and an open connection
\* is the one the service's connection field refers to.
C18_AtMostOneLiveConnection ==
    /\ Cardinality(LiveConnections) <= 1
    /\ \A k \in LiveConnections : k = connection

ShutDown ==
    /\ lifecycle = "stopped"
    /\ \A t \in Tasks : tkind[t] = "destroy" => tpc[t] = "idle"

\* C12: once onModuleDestroy has returned, no connection and no channel is
\* open and no activation is attempting, or waiting to attempt, a
\* connection; the 'close' event of the shutdown's own close included.
C12_QuietAfterShutdown ==
    ShutDown =>
        /\ \A k \in Conns : ~connOpen[k] /\ ~chanOpen[k]
        /\ \A t \in Tasks : tpc[t] = "idle"

TopologyDeclared(k) == declared[k] = 1..TopologySteps

SendsOnChannel(c) ==
    \/ pc[c] = "idle" /\ pc'[c] = "assert"
    \/ pc[c] = "assert" /\ (published'[c] \/ consumer'[c] # NoConn)

\* C19: a call sends its reply-queue declaration, its consume and its
\* request only on a channel on which connect() has finished declaring the
\* topology, calls made during a connect or reconnect included.
C19_NoTrafficBeforeTopology ==
    [][\A c \in Calls : SendsOnChannel(c) => TopologyDeclared(channel)]_vars

RequestPublished(c) == ~published[c] /\ published'[c]

ConsumingReplyQueue(c) == consumer'[c] # NoConn /\ consumer'[c] = callCh[c]

\* C17: when a call's request is published, the call's consumer is
\* registered on its reply queue, so a reply sent at once finds the
\* consumer and is delivered to it.
C17_ConsumesBeforePublishing ==
    [][\A c \in Calls : RequestPublished(c) => ConsumingReplyQueue(c)]_vars

ReplySuccess(c) == outcome[c] = "Resolved" /\ result[c].success

BothSucceeded == ReplySuccess(CheckCall) /\ ReplySuccess(DeductCall)

ResolvedConfirmed == oreturn.kind = "resolved" /\ oreturn.status = "CONFIRMED"

NoRepositoryFailure == dbFailuresLeft = MaxDbFailures

\* C13 as stated: createOrder resolves, with the order CONFIRMED, exactly
\* when the stock-check reply and then the deduct reply both have
\* success = true; the order is CONFIRMED only after the successful deduct
\* reply; in every other case createOrder rejects.
C13_ConfirmedExactlyWhenBothSucceed ==
    /\ order = "CONFIRMED" => ReplySuccess(DeductCall)
    /\ opc = "done" =>
         /\ ResolvedConfirmed <=> BothSucceeded
         /\ ~BothSucceeded => oreturn.kind = "rejected"

\* C13 amended: createOrder resolves, with the order CONFIRMED, exactly when
\* both replies have success = true and no repository operation failed;
\* the order is CONFIRMED only after the successful deduct reply; in every
\* other case createOrder rejects.
C13_ConfirmedWhenBothSucceedAndStored ==
    /\ order = "CONFIRMED" => ReplySuccess(DeductCall)
    /\ opc = "done" =>
         /\ ResolvedConfirmed <=> (BothSucceeded /\ NoRepositoryFailure)
         /\ ~ResolvedConfirmed => oreturn.kind = "rejected"

\* C13 witness: createOrder has resolved with the confirmed order.
C13_OrderConfirmed ==
    opc = "done" /\ ResolvedConfirmed /\ BothSucceeded /\ order = "CONFIRMED"

CheckRefused == outcome[CheckCall] = "Resolved" /\ ~result[CheckCall].success

\* C14: when the stock-check reply has success = false, createOrder rejects
\* with BAD_REQUEST carrying the reply's message, or 'Insufficient stock
\* available' without one, the event is logged, no order is created and
\* no deduct request is published.
C14_RefusedCheckRejectsOnly ==
    CheckRefused =>
        /\ order = "none"
        /\ pc[DeductCall] = "idle" /\ ~published[DeductCall]
        /\ opc = "done" =>
             /\ oreturn.kind = "rejected"
             /\ oreturn.error.status = "BAD_REQUEST"
             /\ oreturn.error.message =
                  IF result[CheckCall].message = Undefined
                  THEN "Insufficient stock available"
                  ELSE result[CheckCall].message
             /\ "Stock check failed" \in events

\* C14 witness: createOrder has rejected a refused check whose reply
\* carried a message.
C14_RejectedWithReplyMessage ==
    /\ CheckRefused /\ opc = "done"
    /\ result[CheckCall].message # Undefined
    /\ oreturn.error.message = result[CheckCall].message

DeductionFailed ==
    /\ ReplySuccess(CheckCall)
    /\ pc[DeductCall] = "done" /\ ~ReplySuccess(DeductCall)

\* C15 as stated: when the stock check succeeded and the deduction failed
\* (reply without success, or the deduct call rejected), the PENDING order
\* is set to FAILED and createOrder rejects with INTERNAL_SERVER_ERROR
\* 'Failed to process order'.
C15_FailedDeductionMarksFailed ==
    (DeductionFailed /\ opc = "done") =>
        /\ order = "FAILED"
        /\ oreturn = Rejects(FailedToProcess)

\* C15 amended: in that case the PENDING order is set to FAILED and
\* createOrder rejects with INTERNAL_SERVER_ERROR 'Failed to process order',
\* unless the status update itself fails: then the order stays PENDING and
\* createOrder rejects with the repository's error.
C15_FailedDeductionMarksFailedIfStored ==
    (DeductionFailed /\ opc = "done") =>
        IF NoRepositoryFailure
        THEN order = "FAILED" /\ oreturn = Rejects(FailedToProcess)
        ELSE order = "PENDING" /\ oreturn = Rejects(RepositoryError)

\* C15 witness: the deduct call timed out and the order was set to FAILED.
C15_MarkedFailedAfterTimeout ==
    /\ DeductionFailed /\ opc = "done"
    /\ outcome[DeductCall] = "RequestTimeout" /\ order = "FAILED"

\* C16: handleStockUpdate completes without raising, also when every call
\* to logOrderEvent fails.
C16_StockUpdateNeverRaises == hreturn # "raised"

\* C20: an order is FAILED only if its stock was not deducted, whenever
\* the deduct reply arrives relative to the call's timeout.
C20_FailedOnlyIfNotDeducted == order = "FAILED" => ~deducted

StatusChange ==
    \/ order = "none" /\ order' = "PENDING"
    \/ order = "PENDING" /\ order' \in {"CONFIRMED", "FAILED"}

\* C21: the stored order's status changes only from nothing to PENDING and
\* from PENDING to CONFIRMED or to FAILED, so at most once after its
\* creation; a CONFIRMED order is never set to FAILED by createOrder.
C21_StatusChangesOnce ==
    [][order' # order => StatusChange]_vars

\* C21 witness: the order was confirmed, the confirmation was logged and
\* createOrder has returned with the order still CONFIRMED.
C21_ConfirmedStays ==
    order = "CONFIRMED" /\ "Order confirmed" \in events /\ opc = "done"

TimerFires(c) == timer[c] = "armed" /\ timer'[c] = "fired"

\* C22: a call's deadline timer fires only while its caller is still
\* waiting and its registry entry is present: every path on which the call
\* ends (reply, timeout, publish failure) leaves the timer cleared or fired.
C22_TimerFiresOnlyWhilePending ==
    [][\A c \in Calls :
         TimerFires(c) => pc[c] # "done" /\ c \in responseEmitter]_vars

=============================================================================
